---- MODULE Spec2Model ----
(***************************************************************************)
(* A model of the go-logo logging package: the level gate, the two         *)
(* built-in record handlers, the destination writers (styled console,      *)
(* raw writer, channel writer, rotating file), the io.MultiWriter fan-out  *)
(* that NewLogger builds over them, and the Logger facade (logging         *)
(* methods, Fatal, SetLoggerLevel, Close); two loggers side by side, the   *)
(* global logger with SetGlobalLevel, derived handlers (WithAttrs) and the *)
(* argument normalizer.                                                    *)
(*                                                                         *)
(* A byte string is a sequence of tokens.  A token is either one character *)
(* ("a", " ", "\n") or a fixed piece of rendered text whose byte length is *)
(* given by Width (a timestamp, a key, a level name, an escape sequence).  *)
(***************************************************************************)
EXTENDS Integers, Sequences, FiniteSets, TLC

VARIABLES
    ctx,      \* the logger's loggerContext
    handler,  \* the slog.Handler inside the logger's embedded *slog.Logger
    ch,       \* the buffer of the application's chan string
    last,     \* what the last operation did and returned
    exited,   \* osExit has been called: the process is gone
    sent,     \* history: inputs of the direct ChannelWriter writes that fitted
    rcvd,     \* history: messages the consumer took from the channel
    LOGLEVEL, \* the package variable LOGLEVEL
    global,   \* the package variable logger is set: ctx and handler are its fields
    peer,     \* a second logger, built by its own NewLogger call
    lvlSet,   \* history: the level of the last level-setting call since the
              \* logger was built (<<>> when there was none)
    input,    \* the record, or the argument list, a run of the handlers on
              \* their own is about (<<>> elsewhere)
    gor,      \* the goroutines of a concurrent run: where each one is in its call
    out       \* what each destination has received in a concurrent run

vars == <<ctx, handler, ch, last, exited, sent, rcvd, LOGLEVEL, global, peer,
          lvlSet, input, gor, out>>

\* what the operations of one logger leave alone: the package variables, the
\* other logger and the history of level-setting calls
pkg == <<LOGLEVEL, global, peer, lvlSet, input, gor, out>>

----------------------------------------------------------------------------
(* Bounds of the model *)

\* capacity of the application's channel (make(chan string, ChanCap))
ChanCap == 1

\* number of LoggerOptions passed to NewLogger
MaxOpts == 1

\* number of destination and format options passed to NewLogger in the
\* fan-out runs
MaxDests == 2

\* number of direct ChannelWriter.Write calls in the channel-writer runs
MaxWrites == 3

\* number of attributes on a record handed to a handler
MaxAttrs == 2

\* number of arguments handed to normalizeAttrs
MaxArgs == 3

----------------------------------------------------------------------------
(* Byte strings *)

IsSpace(c) == c \in {" ", "\n", "\t"}

\* byte length of one token
Width(tok) ==
    CASE tok \in {"time", "INFO", "WARN"}                   -> 4
      [] tok \in {"level", "trace", "TRACE", "DEBUG", "ERROR", "FATAL", "error"} -> 5
      [] tok = "msg"                                        -> 3
      [] tok = "source"                                     -> 6
      [] tok = "2006-01-02T15:04:05.000Z07:00"              -> 29
      [] tok = "15:04:05"                                   -> 8
      [] tok = "file.go:1 (fn)"                             -> 14
      [] tok = "file.go:1"                                  -> 9
      [] tok = "goroutine 1 [running]:"                     -> 22
      [] tok = "ESC[1;38;5;Nm"                              -> 11
      [] tok = "ESC[0m"                                     -> 4
      [] tok = "\\n"                                        -> 2
      [] OTHER                                              -> 1

RECURSIVE ByteLen(_)
\* len(p)
ByteLen(s) == IF s = <<>> THEN 0 ELSE Width(Head(s)) + ByteLen(Tail(s))

\* strings.TrimSpace
TrimSpace(s) ==
    LET keep == {i \in DOMAIN s : ~IsSpace(s[i])}
        lo == CHOOSE i \in keep : \A j \in keep : i <= j
        hi == CHOOSE i \in keep : \A j \in keep : j <= i
    IN IF keep = {} THEN <<>> ELSE SubSeq(s, lo, hi)

----------------------------------------------------------------------------
(* Errors *)

NoErr == [kind |-> "nil", at |-> 0]
Err(k, i) == [kind |-> k, at |-> i]
\* io.ErrShortWrite, raised by io.MultiWriter itself
ErrShortWrite == [kind |-> "short write", at |-> 0]

----------------------------------------------------------------------------
(* Channel Writer *)

\* ChannelWriter.Write returning a full-length count for an empty line
ChannelWriterWrite_CountsEmpty(buf, p) ==
    LET msg == TrimSpace(p) IN
    IF msg # <<>>
    THEN [ch |-> IF Len(buf) < ChanCap THEN Append(buf, msg) ELSE buf,
          n |-> ByteLen(p), err |-> NoErr]
    ELSE [ch |-> buf, n |-> ByteLen(p), err |-> NoErr]

\* ChannelWriter.Write making room in a full channel by dropping the oldest
ChannelWriterWrite_DropsOldest(buf, p) ==
    LET msg == TrimSpace(p) IN
    IF msg # <<>>
    THEN [ch |-> IF Len(buf) < ChanCap THEN Append(buf, msg)
                 ELSE IF buf = <<>> THEN buf ELSE Append(Tail(buf), msg),
          n |-> ByteLen(p), err |-> NoErr]
    ELSE [ch |-> buf, n |-> 0, err |-> NoErr]

\* ChannelWriter.Write sending the line untrimmed
ChannelWriterWrite_NoTrim(buf, p) ==
    LET msg == TrimSpace(p) IN
    IF msg # <<>>
    THEN [ch |-> IF Len(buf) < ChanCap THEN Append(buf, p) ELSE buf,
          n |-> ByteLen(p), err |-> NoErr]
    ELSE [ch |-> buf, n |-> 0, err |-> NoErr]

\* ChannelWriter.Write: trim, drop an empty line (0, nil), else a non-blocking
\* send (select with default) and (len(p), nil)
ChannelWriterWrite(buf, p) ==
    LET msg == TrimSpace(p) IN
    IF msg # <<>>
    THEN [ch |-> IF Len(buf) < ChanCap THEN Append(buf, msg) ELSE buf,
          n |-> ByteLen(p), err |-> NoErr]
    ELSE [ch |-> buf, n |-> 0, err |-> NoErr]

----------------------------------------------------------------------------
(* Level Model *)

LevelDebug == -4
LevelInfo == 0
LevelWarn == 4
LevelError == 8
LevelTrace == LevelDebug - 5
LevelFatal == LevelError + 1

Levels == {LevelTrace, LevelDebug, LevelInfo, LevelWarn, LevelError, LevelFatal}

\* levelToString
levelToString(l) ==
    CASE l = LevelTrace -> <<"TRACE">>
      [] l = LevelDebug -> <<"DEBUG">>
      [] l = LevelInfo  -> <<"INFO">>
      [] l = LevelWarn  -> <<"WARN">>
      [] l = LevelError -> <<"ERROR">>
      [] l = LevelFatal -> <<"FATAL">>
      [] OTHER          -> <<>>

\* a gate that lets through only the levels strictly above the minimum
HandlerEnabled_Strict(h, level) == level > h.level

\* CustomTextHandler.Enabled, JSONHandler.Enabled (and the gate of slog's own
\* text handler): level >= h.opts.Level.Level()
HandlerEnabled(h, level) == level >= h.level

----------------------------------------------------------------------------
(* Record Handlers: rendering *)

\* attrOrder
attrOrder == <<"time", "level", "msg", "source">>

\* the keys of the model in ascending byte order (what slices.Sort and
\* encoding/json's map ordering yield)
KeyUniverse == <<"a", "b", "level", "msg", "source", "time", "trace">>

Rank(k) == CHOOSE i \in DOMAIN KeyUniverse : KeyUniverse[i] = k

RECURSIVE SortKeys(_)
\* slices.Sort over a set of keys
SortKeys(ks) ==
    IF ks = {} THEN <<>>
    ELSE LET k == CHOOSE x \in ks : \A y \in ks : Rank(x) <= Rank(y)
         IN <<k>> \o SortKeys(ks \ {k})

InOrder(k) == \E i \in DOMAIN attrOrder : attrOrder[i] = k

\* an assignment that leaves a key that is already present as it is
MapSet_KeepFirst(m, k, v) ==
    IF k \in DOMAIN m THEN m
    ELSE [x \in (DOMAIN m) \cup {k} |-> IF x = k THEN v ELSE m[x]]

\* m[k] = v on a Go map
MapSet(m, k, v) == [x \in (DOMAIN m) \cup {k} |-> IF x = k THEN v ELSE m[x]]
\* delete(m, k)
MapDel(m, k) == [x \in (DOMAIN m) \ {k} |-> m[x]]

\* the values the runtime supplies
TimeVal == <<"2006-01-02T15:04:05.000Z07:00">>
FrameVal == <<"file.go:1">>
CallerVal == <<"file.go:1 (fn)">>
StackVal == <<"goroutine 1 [running]:", "\n">>

\* the standard attributes both handlers start from
BaseAttrs(h, r) ==
    LET m == [k \in {"time", "level", "msg"} |->
                 CASE k = "time" -> TimeVal
                   [] k = "level" -> levelToString(r.level)
                   [] OTHER -> r.msg]
    IN IF h.addSource THEN MapSet(m, "source", FrameVal) ELSE m

RECURSIVE TextPut_NoSkip(_, _)
\* loops that copy every attribute into the map, reserved keys included
TextPut_NoSkip(m, as) ==
    IF as = <<>> THEN m
    ELSE TextPut_NoSkip(MapSet(m, Head(as).key, Head(as).val), Tail(as))

RECURSIVE TextPut(_, _)
\* the two loops of CustomTextHandler.Handle that copy handler and record
\* attributes into the map, skipping the four reserved keys
TextPut(m, as) ==
    IF as = <<>> THEN m
    ELSE LET a == Head(as)
         IN IF a.key \notin {"level", "msg", "time", "source"}
            THEN TextPut(MapSet(m, a.key, a.val), Tail(as))
            ELSE TextPut(m, Tail(as))

RECURSIVE TextOrdered(_, _)
\* the attrOrder loop of CustomTextHandler.Handle: a present, non-empty
\* reserved key is written and deleted; an empty one is skipped and stays
TextOrdered(m, order) ==
    IF order = <<>> THEN [m |-> m, out |-> <<>>]
    ELSE LET k == Head(order)
         IN IF k \in DOMAIN m /\ m[k] # <<>>
            THEN LET rest == TextOrdered(MapDel(m, k), Tail(order))
                 IN [m |-> rest.m, out |-> <<[key |-> k, val |-> m[k]]>> \o rest.out]
            ELSE TextOrdered(m, Tail(order))

\* the pairs of a map in the order of a key sequence
PairsOf(m, keys) == [i \in DOMAIN keys |-> [key |-> keys[i], val |-> m[keys[i]]]]

\* the (key, value) pairs CustomTextHandler.Handle writes, in output order
TextPairs(h, r) ==
    LET m == TextPut(TextPut(BaseAttrs(h, r), h.attrs), r.attrs)
        o == TextOrdered(m, attrOrder)
    IN o.out \o PairsOf(o.m, SortKeys(DOMAIN o.m))

RECURSIVE TextJoin(_)
TextJoin(ps) ==
    IF ps = <<>> THEN <<>>
    ELSE LET p == Head(ps)
         IN <<p.key, "=">> \o p.val \o
            (IF Tail(ps) = <<>> THEN <<>> ELSE <<" ">> \o TextJoin(Tail(ps)))

\* the bytes CustomTextHandler.Handle hands to h.out.Write
TextLine(h, r) == TextJoin(TextPairs(h, r)) \o <<"\n">>

RECURSIVE JSONPut(_, _)
\* the r.Attrs loop of JSONHandler.Handle
JSONPut(m, as) ==
    IF as = <<>> THEN m
    ELSE LET a == Head(as)
         IN IF InOrder(a.key)
            THEN JSONPut(m, Tail(as))
            ELSE JSONPut(MapSet(m, a.key, a.val), Tail(as))

\* the members of the object JSONHandler.Handle marshals: json.Marshal writes
\* the keys of a map in sorted order
JSONPairs(h, r) ==
    LET m == JSONPut(BaseAttrs(h, r), r.attrs)
    IN PairsOf(m, SortKeys(DOMAIN m))

\* a JSON string literal
JSONString(v) ==
    <<"\"">> \o [i \in DOMAIN v |-> IF v[i] = "\n" THEN "\\n" ELSE v[i]] \o <<"\"">>

RECURSIVE JSONJoin(_)
JSONJoin(ps) ==
    IF ps = <<>> THEN <<>>
    ELSE LET p == Head(ps)
         IN <<"\"", p.key, "\"", ":">> \o JSONString(p.val) \o
            (IF Tail(ps) = <<>> THEN <<>> ELSE <<",">> \o JSONJoin(Tail(ps)))

\* the bytes JSONHandler.Handle hands to h.out.Write
JSONLine(h, r) == <<"{">> \o JSONJoin(JSONPairs(h, r)) \o <<"}", "\n">>

----------------------------------------------------------------------------
(* Destination Writers *)

\* an io.Writer of the destination list.  kind: "styled" (StyledConsoleWriter),
\* "raw" (a writer used as it is), "chan" (ChannelWriter), "file"
\* (lumberjack.Logger).  id: for "styled" and "raw" 0 is os.Stdout and 1 the
\* writer the caller passed; for "file" the position in ctx.fileWriters.
Writer(k, i) == [kind |-> k, id |-> i]

IsConsole(w) == w.kind = "styled" \/ (w.kind = "raw" /\ w.id = 0)

\* lipgloss Style.Render: the text between escape sequences on a colour
\* terminal, the text alone otherwise
Render(s, ansi) == IF ansi THEN <<"ESC[1;38;5;Nm">> \o s \o <<"ESC[0m">> ELSE s

\* the line StyledConsoleWriter.Write prints with fmt.Fprintln
StyledLine(c, p, ansi) ==
    IF ~c.colorEnabled
    THEN <<"[", "15:04:05", "]", " ">> \o TrimSpace(p) \o <<"\n">>
    ELSE <<"[">> \o Render(<<"15:04:05">>, ansi) \o <<"]", " ">>
         \o Render(TrimSpace(p), ansi) \o <<"\n">>

\* StyledConsoleWriter.Write: returns what fmt.Fprintln returns, the number of
\* bytes of the styled line written to cw.out and the error of cw.out
StyledConsoleWrite(c, p, env, i) ==
    IF i \in env.fail
    THEN [n |-> 0, err |-> Err("write", i), delivered |-> FALSE]
    ELSE [n |-> ByteLen(StyledLine(c, p, env.ansi)), err |-> NoErr, delivered |-> TRUE]

\* Write of os.Stdout, of a caller's writer and of lumberjack.Logger: all of
\* p and len(p), or an error
PlainWrite(p, env, i) ==
    IF i \in env.fail
    THEN [n |-> 0, err |-> Err("write", i), delivered |-> FALSE]
    ELSE [n |-> ByteLen(p), err |-> NoErr, delivered |-> TRUE]

\* w.Write(p) for the i-th writer of the list; buf is the channel's buffer
WriterWrite(c, w, i, p, buf, env) ==
    CASE w.kind = "styled" ->
           [ch |-> buf] @@ StyledConsoleWrite(c, p, env, i)
      [] w.kind = "chan" ->
           LET r == ChannelWriterWrite(buf, p)
           IN [ch |-> r.ch, n |-> r.n, err |-> r.err, delivered |-> r.ch # buf]
      [] OTHER ->
           [ch |-> buf] @@ PlainWrite(p, env, i)

----------------------------------------------------------------------------
(* Multi-Writer Fan-out *)

RECURSIVE MultiWriterWrite_BestEffort(_, _, _, _, _, _)
\* a fan-out that goes on to the next writer after an error
MultiWriterWrite_BestEffort(c, outs, i, p, buf, env) ==
    IF i > Len(outs)
    THEN [ch |-> buf, n |-> ByteLen(p), err |-> NoErr, ws |-> <<>>]
    ELSE LET r == WriterWrite(c, outs[i], i, p, buf, env)
             ev == [dst |-> i, n |-> r.n, err |-> r.err, delivered |-> r.delivered]
             rest == MultiWriterWrite_BestEffort(c, outs, i + 1, p, r.ch, env)
         IN [ch |-> rest.ch, n |-> rest.n,
             err |-> IF r.err # NoErr THEN r.err ELSE rest.err,
             ws |-> <<ev>> \o rest.ws]

RECURSIVE MultiWriterWrite(_, _, _, _, _, _)
\* io.MultiWriter(ctx.outputs...).Write(p), from the i-th writer on: each
\* writer in turn; the first error, or a count other than len(p)
\* (io.ErrShortWrite), ends the call.  ws lists the Write calls made.
MultiWriterWrite(c, outs, i, p, buf, env) ==
    IF i > Len(outs)
    THEN [ch |-> buf, n |-> ByteLen(p), err |-> NoErr, ws |-> <<>>]
    ELSE LET r == WriterWrite(c, outs[i], i, p, buf, env)
             ev == [dst |-> i, n |-> r.n, err |-> r.err, delivered |-> r.delivered]
         IN IF r.err # NoErr
            THEN [ch |-> r.ch, n |-> r.n, err |-> r.err, ws |-> <<ev>>]
            ELSE IF r.n # ByteLen(p)
            THEN [ch |-> r.ch, n |-> r.n, err |-> ErrShortWrite, ws |-> <<ev>>]
            ELSE LET rest == MultiWriterWrite(c, outs, i + 1, p, r.ch, env)
                 IN [rest EXCEPT !.ws = <<ev>> \o rest.ws]

----------------------------------------------------------------------------
(* Configuration Context and options *)

\* the loggerContext NewLogger starts from (the package-level defaults)
DefaultCtx ==
    [outputs |-> <<>>, consoleOn |-> TRUE, useJSONFormat |-> FALSE,
     includeSource |-> FALSE, includeStackTraces |-> FALSE,
     logLevel |-> LOGLEVEL, colorEnabled |-> TRUE,
     fileWriters |-> <<>>, customHandler |-> FALSE]

\* the LoggerOptions of the model
Options ==
    [op : {"SetLevel"}, level : Levels]
    \cup [op : {"DisableColors", "UseJSON", "AddConsoleOutput", "SetConsoleOutput",
               "DisableConsole", "AddChannelOutput", "UseCustomHandler"}]
    \cup [op : {"AddFileOutput"}, ok : BOOLEAN]

HasConsoleWriter(outs) == \E i \in DOMAIN outs : IsConsole(outs[i])

\* the position of the first styled or stdout writer
FirstConsole(outs) ==
    CHOOSE i \in DOMAIN outs : IsConsole(outs[i]) /\ \A j \in 1..(i - 1) : ~IsConsole(outs[j])

\* AddConsoleOutput
AddConsoleOutput(c) ==
    [c EXCEPT !.outputs =
                 IF HasConsoleWriter(c.outputs) THEN @
                 ELSE IF c.useJSONFormat THEN Append(@, Writer("raw", 0))
                 ELSE Append(@, Writer("styled", 0)),
              !.consoleOn = TRUE]

\* SetConsoleOutput
SetConsoleOutput(c) ==
    LET w == IF c.useJSONFormat THEN Writer("raw", 1) ELSE Writer("styled", 1)
    IN [c EXCEPT !.outputs =
                    IF HasConsoleWriter(c.outputs)
                    THEN [@ EXCEPT ![FirstConsole(c.outputs)] = w]
                    ELSE Append(@, w),
                 !.consoleOn = FALSE]

\* AddFileOutput: ok is whether the directory and the file could be created
AddFileOutput(c, ok) ==
    IF ~ok THEN c
    ELSE [c EXCEPT !.outputs = Append(@, Writer("file", Len(c.fileWriters) + 1)),
                   !.fileWriters = Append(@, Len(c.fileWriters) + 1)]

\* one LoggerOption applied to the context
ApplyOpt(c, o) ==
    CASE o.op = "SetLevel"          -> [c EXCEPT !.logLevel = o.level]
      [] o.op = "DisableColors"     -> [c EXCEPT !.colorEnabled = FALSE]
      [] o.op = "UseJSON"           -> [c EXCEPT !.useJSONFormat = TRUE]
      [] o.op = "AddConsoleOutput"  -> AddConsoleOutput(c)
      [] o.op = "SetConsoleOutput"  -> SetConsoleOutput(c)
      [] o.op = "DisableConsole"    -> [c EXCEPT !.consoleOn = FALSE]
      [] o.op = "AddChannelOutput"  -> [c EXCEPT !.outputs = Append(@, Writer("chan", 0))]
      [] o.op = "UseCustomHandler"  -> [c EXCEPT !.customHandler = TRUE]
      [] OTHER                      -> AddFileOutput(c, o.ok)

RECURSIVE ApplyOpts(_, _)
\* for _, opt := range opts { opt(ctx) }
ApplyOpts(c, opts) ==
    IF opts = <<>> THEN c ELSE ApplyOpts(ApplyOpt(c, Head(opts)), Tail(opts))

\* a handler: kind "text" (CustomTextHandler), "json" (JSONHandler), "discard"
\* (slog's text handler over io.Discard) or "custom" (the caller's handler)
Handler(k, c, lvl) ==
    [kind |-> k, level |-> lvl, addSource |-> c.includeSource,
     outs |-> IF k \in {"text", "json"} THEN c.outputs ELSE <<>>, attrs |-> <<>>]

\* the default console output NewLogger adds
DefaultConsole(c) ==
    IF c.consoleOn /\ Len(c.outputs) = 0
    THEN [c EXCEPT !.outputs =
                      IF ~c.useJSONFormat THEN Append(@, Writer("styled", 0))
                      ELSE Append(@, Writer("raw", 0))]
    ELSE c

\* the handler NewLogger creates for a context
BuiltinHandler(c, lvl) ==
    IF Len(c.outputs) > 0
    THEN IF c.useJSONFormat THEN Handler("json", c, lvl) ELSE Handler("text", c, lvl)
    ELSE Handler("discard", c, lvl)

\* NewLogger(opts...): the context and the handler of the returned Logger
NewLogger(opts) ==
    LET c0 == ApplyOpts(DefaultCtx, opts)
    IN IF c0.customHandler
       THEN [ctx |-> c0, handler |-> Handler("custom", c0, c0.logLevel)]
       ELSE LET c == DefaultConsole(c0)
            IN [ctx |-> c, handler |-> BuiltinHandler(c, c.logLevel)]

----------------------------------------------------------------------------
(* Logger Facade *)

\* the message texts of the model
Msgs == {<<"a">>}

RECURSIVE SeqsOver(_, _)
\* the sequences over S of length at most n
SeqsOver(S, n) ==
    IF n = 0 THEN {<<>>}
    ELSE LET shorter == SeqsOver(S, n - 1)
         IN shorter \cup {Append(s, o) : s \in shorter, o \in S}

\* what the environment decides during one Handle: the writers whose
\* underlying write fails, and whether the terminal takes colours
Envs(c, h) ==
    [fail : SUBSET {i \in DOMAIN h.outs : h.outs[i].kind # "chan"},
     ansi : IF c.colorEnabled /\ \E i \in DOMAIN h.outs : h.outs[i].kind = "styled"
            THEN BOOLEAN ELSE {FALSE}]

\* the slog.Record a logging method builds
Record(lvl, m, as) == [level |-> lvl, msg |-> m, attrs |-> as]

\* the attributes Trace puts on its record
TraceAttrs == <<[key |-> "trace", val |-> StackVal], [key |-> "source", val |-> CallerVal]>>

\* the attributes Fatal puts on its record
FatalAttrs(c) ==
    <<[key |-> "source", val |-> CallerVal]>>
    \o (IF c.includeStackTraces THEN <<[key |-> "trace", val |-> StackVal]>> ELSE <<>>)

\* a Handle that writes the rendering to the fan-out again when the first
\* Write returned an error
Handle_Retry(c, h, r, buf, env) ==
    IF h.kind \notin {"text", "json"}
    THEN [ch |-> buf, n |-> 0, err |-> NoErr, ws |-> <<>>]
    ELSE LET p == IF h.kind = "text" THEN TextLine(h, r) ELSE JSONLine(h, r)
             a == MultiWriterWrite(c, h.outs, 1, p, buf, env)
         IN IF a.err = NoErr
            THEN a
            ELSE LET b == MultiWriterWrite(c, h.outs, 1, p, a.ch, env)
                 IN [b EXCEPT !.ws = a.ws \o b.ws]

\* l.Handler().Handle(ctx, rec): the rendering goes to the fan-out in one Write
Handle(c, h, r, buf, env) ==
    CASE h.kind = "text" -> MultiWriterWrite(c, h.outs, 1, TextLine(h, r), buf, env)
      [] h.kind = "json" -> MultiWriterWrite(c, h.outs, 1, JSONLine(h, r), buf, env)
      [] OTHER -> [ch |-> buf, n |-> 0, err |-> NoErr, ws |-> <<>>]

\* the events of one Handle call: the call, then the Write calls it caused
HandleEvents(h, res) ==
    <<[e |-> "handle", kind |-> h.kind]>>
    \o [i \in DOMAIN res.ws |-> [e |-> "write"] @@ res.ws[i]]

ExitEvent == [e |-> "exit", code |-> 1]

\* Fatal calling osExit before it hands the record to the handler
FatalEvents_ExitFirst(h, res) == <<ExitEvent>> \o HandleEvents(h, res)

\* the tail of Logger.Fatal: Handle, then osExit(1)
FatalEvents(h, res) == HandleEvents(h, res) \o <<ExitEvent>>

\* l.Enabled(ctx, level): the handler's gate; a caller's handler decides itself
EnabledChoices(h, lvl) ==
    IF h.kind = "custom" THEN BOOLEAN ELSE {HandlerEnabled(h, lvl)}

\* the record of one logging call in last
CallResult(method, lvl, en, events, err) ==
    [op |-> "Log", who |-> 1, method |-> method, level |-> lvl, kind |-> handler.kind,
     min |-> handler.level, outs |-> handler.outs, free |-> ChanCap - Len(ch),
     enabled |-> en,
     events |-> events, err |-> err]

\* Fatal that returns without exiting when the level is suppressed
FatalSuppressed_NoExit(lvl) ==
    /\ last' = CallResult("Fatal", lvl, FALSE, <<>>, NoErr)
    /\ UNCHANGED <<ctx, handler, ch, exited, sent, rcvd, pkg>>

\* the branch of Fatal taken when the level is not enabled: osExit(1); return
FatalSuppressed(lvl) ==
    /\ last' = CallResult("Fatal", lvl, FALSE, <<ExitEvent>>, NoErr)
    /\ exited' = TRUE
    /\ UNCHANGED <<ctx, handler, ch, sent, rcvd, pkg>>

\* Debug, Info, Warn, Error of the embedded slog.Logger: gate, record, Handle
Log(lvl) ==
    /\ ~exited
    /\ \E en \in EnabledChoices(handler, lvl), m \in Msgs :
         IF ~en
         THEN /\ last' = CallResult("Log", lvl, FALSE, <<>>, NoErr)
              /\ UNCHANGED <<ctx, handler, ch, exited, sent, rcvd, pkg>>
         ELSE \E env \in Envs(ctx, handler) :
                \E res \in {Handle(ctx, handler, Record(lvl, m, <<>>), ch, env)} :
                   /\ ch' = res.ch
                   /\ last' = CallResult("Log", lvl, TRUE, HandleEvents(handler, res), res.err)
                   /\ UNCHANGED <<ctx, handler, exited, sent, rcvd, pkg>>

\* Logger.Trace
Trace ==
    /\ ~exited
    /\ \E en \in EnabledChoices(handler, LevelTrace), m \in Msgs :
         IF ~en
         THEN /\ last' = CallResult("Trace", LevelTrace, FALSE, <<>>, NoErr)
              /\ UNCHANGED <<ctx, handler, ch, exited, sent, rcvd, pkg>>
         ELSE \E env \in Envs(ctx, handler) :
                \E res \in {Handle(ctx, handler, Record(LevelTrace, m, TraceAttrs), ch, env)} :
                   /\ ch' = res.ch
                   /\ last' = CallResult("Trace", LevelTrace, TRUE,
                                         HandleEvents(handler, res), res.err)
                   /\ UNCHANGED <<ctx, handler, exited, sent, rcvd, pkg>>

\* Logger.Fatal: the error of Handle is dropped, osExit(1) follows
Fatal ==
    /\ ~exited
    /\ \E en \in EnabledChoices(handler, LevelFatal), m \in Msgs :
         IF ~en
         THEN FatalSuppressed(LevelFatal)
         ELSE \E env \in Envs(ctx, handler) :
                \E res \in {Handle(ctx, handler, Record(LevelFatal, m, FatalAttrs(ctx)), ch, env)} :
                   /\ ch' = res.ch
                   /\ last' = CallResult("Fatal", LevelFatal, TRUE,
                                         FatalEvents(handler, res), res.err)
                   /\ exited' = TRUE
                   /\ UNCHANGED <<ctx, handler, sent, rcvd, pkg>>

\* a SetLoggerLevel that updates the context and leaves the handler as it is
RebuildHandler_KeepsOld(c, h, lvl, hasSetLevel) == h

\* the handler of the logger after SetLoggerLevel.  c is the context with the
\* new level.  hasSetLevel: the handler has a SetLevel(slog.Level) method
\* (only a caller's handler can have one) and is told the level itself;
\* otherwise a built-in handler is made over the outputs, if there are any.
RebuildHandler(c, h, lvl, hasSetLevel) ==
    IF hasSetLevel THEN h
    ELSE IF Len(c.outputs) > 0 THEN BuiltinHandler(c, lvl)
    ELSE h

\* whether the handler has a SetLevel method
HasSetLevelChoices(h) == IF h.kind = "custom" THEN BOOLEAN ELSE {FALSE}

\* SetLoggerLevel(logger, level)
SetLoggerLevel(lvl) ==
    /\ ~exited
    /\ ctx' = [ctx EXCEPT !.logLevel = lvl]
    /\ \E hasSetLevel \in HasSetLevelChoices(handler) :
         handler' = RebuildHandler(ctx', handler, lvl, hasSetLevel)
    /\ last' = [op |-> "SetLoggerLevel", who |-> 1, level |-> lvl]
    /\ lvlSet' = <<lvl>>
    /\ UNCHANGED <<ch, exited, sent, rcvd, LOGLEVEL, global, peer, input, gor, out>>

RECURSIVE CloseFiles_StopAtError(_, _, _)
\* a close loop that returns at the first error
CloseFiles_StopAtError(fws, failing, lastErr) ==
    IF fws = <<>> THEN [err |-> lastErr, closed |-> <<>>]
    ELSE IF Head(fws) \in failing
    THEN [err |-> Err("close", Head(fws)), closed |-> <<Head(fws)>>]
    ELSE LET rest == CloseFiles_StopAtError(Tail(fws), failing, lastErr)
         IN [err |-> rest.err, closed |-> <<Head(fws)>> \o rest.closed]

RECURSIVE CloseFiles(_, _, _)
\* the first loop of Logger.Close: fw.Close() on every file writer in order,
\* lastErr = err on each failure.  closed lists the writers Close was called on.
CloseFiles(fws, failing, lastErr) ==
    IF fws = <<>> THEN [err |-> lastErr, closed |-> <<>>]
    ELSE LET e == IF Head(fws) \in failing THEN Err("close", Head(fws)) ELSE lastErr
             rest == CloseFiles(Tail(fws), failing, e)
         IN [err |-> rest.err, closed |-> <<Head(fws)>> \o rest.closed]

RECURSIVE SyncOutputs(_, _, _, _)
\* the second loop of Logger.Close: Sync() on every output that has it
\* (os.Stdout); its error counts only when lastErr is still nil
SyncOutputs(outs, i, failing, lastErr) ==
    IF i > Len(outs) THEN lastErr
    ELSE IF outs[i].kind = "raw" /\ outs[i].id = 0 /\ i \in failing /\ lastErr = NoErr
    THEN SyncOutputs(outs, i + 1, failing, Err("sync", i))
    ELSE SyncOutputs(outs, i + 1, failing, lastErr)

\* Logger.Close.  The environment decides which closes and syncs fail.
Close ==
    /\ ~exited
    /\ \E fc \in SUBSET {ctx.fileWriters[i] : i \in DOMAIN ctx.fileWriters},
          fs \in SUBSET {i \in DOMAIN ctx.outputs :
                            ctx.outputs[i].kind = "raw" /\ ctx.outputs[i].id = 0} :
         LET r == CloseFiles(ctx.fileWriters, fc, NoErr)
         IN last' = [op |-> "Close", who |-> 1, failing |-> fc, syncFailing |-> fs,
                     closed |-> r.closed,
                     err |-> SyncOutputs(ctx.outputs, 1, fs, r.err)]
    /\ UNCHANGED <<ctx, handler, ch, exited, sent, rcvd, pkg>>

----------------------------------------------------------------------------
(* The logger specification *)

Init ==
    /\ LOGLEVEL = LevelInfo
    /\ \E opts \in SeqsOver(Options, MaxOpts) :
         LET l == NewLogger(opts) IN ctx = l.ctx /\ handler = l.handler
    /\ ch = <<>>
    /\ last = [op |-> "none", who |-> 0]
    /\ exited = FALSE
    /\ sent = <<>>
    /\ rcvd = <<>>
    /\ global = FALSE
    /\ peer = <<>>
    /\ lvlSet = <<>>
    /\ input = <<>>
    /\ gor = <<>>
    /\ out = <<>>

Next ==
    \/ \E lvl \in {LevelDebug, LevelInfo, LevelWarn, LevelError} : Log(lvl)
    \/ Trace
    \/ Fatal
    \/ \E lvl \in Levels : SetLoggerLevel(lvl)
    \/ Close

Spec == Init /\ [][Next]_vars

----------------------------------------------------------------------------
(* The fan-out specification: loggers over several destinations, at the     *)
(* level they were built with                                               *)

\* the options that decide the destination list and what is written to it
FanOptions ==
    [op : {"DisableColors", "UseJSON", "AddConsoleOutput", "SetConsoleOutput",
           "AddChannelOutput"}]
    \cup [op : {"AddFileOutput"}, ok : {TRUE}]
    \cup [op : {"SetLevel"}, level : {LevelTrace}]

InitFan ==
    /\ LOGLEVEL = LevelInfo
    /\ \E opts \in SeqsOver(FanOptions, MaxDests) :
         LET l == NewLogger(opts) IN ctx = l.ctx /\ handler = l.handler
    /\ ch = <<>>
    /\ last = [op |-> "none", who |-> 0]
    /\ exited = FALSE
    /\ sent = <<>>
    /\ rcvd = <<>>
    /\ global = FALSE
    /\ peer = <<>>
    /\ lvlSet = <<>>
    /\ input = <<>>
    /\ gor = <<>>
    /\ out = <<>>

NextFan ==
    \/ \E lvl \in {LevelDebug, LevelInfo, LevelWarn, LevelError} : Log(lvl)
    \/ Trace
    \/ Fatal
    \/ Close

SpecFan == InitFan /\ [][NextFan]_vars

----------------------------------------------------------------------------
(* The channel writer on its own, written to by its owner *)

\* the lines written
Inputs ==
    {<<>>, <<" ">>, <<" ", "\n", "\t">>, <<"a">>, <<"b", "\n">>,
     <<" ", "a", " ", "b", "\n">>}

\* cw.Write(p) by the owner of a ChannelWriter
ChanWrite ==
    /\ Len(sent) < MaxWrites
    /\ \E p \in Inputs :
         LET r == ChannelWriterWrite(ch, p)
         IN /\ ch' = r.ch
            /\ last' = [op |-> "Write", p |-> p, before |-> ch, n |-> r.n, err |-> r.err]
            /\ sent' = Append(sent, [p |-> p,
                                     fits |-> TrimSpace(p) # <<>> /\ Len(ch) < ChanCap])
    /\ UNCHANGED <<ctx, handler, exited, rcvd, pkg>>

\* msg := <-ch by the consumer
Receive ==
    /\ ch # <<>>
    /\ ch' = Tail(ch)
    /\ rcvd' = Append(rcvd, Head(ch))
    /\ last' = [op |-> "Receive", msg |-> Head(ch)]
    /\ UNCHANGED <<ctx, handler, exited, sent, pkg>>

InitChan ==
    /\ LOGLEVEL = LevelInfo
    /\ LET l == NewLogger(<<[op |-> "AddChannelOutput"]>>)
       IN ctx = l.ctx /\ handler = l.handler
    /\ ch = <<>>
    /\ last = [op |-> "none", who |-> 0]
    /\ exited = FALSE
    /\ sent = <<>>
    /\ rcvd = <<>>
    /\ global = FALSE
    /\ peer = <<>>
    /\ lvlSet = <<>>
    /\ input = <<>>
    /\ gor = <<>>
    /\ out = <<>>

NextChan == ChanWrite \/ Receive

SpecChan == InitChan /\ [][NextChan]_vars

----------------------------------------------------------------------------
(* Two loggers built by separate NewLogger calls *)

\* an allocation that hands every NewLogger call the same Logger and context
Alloc_Shared(n) == 1

\* ctx := &loggerContext{...} and &Logger{...} in NewLogger: the n-th call
\* gets a Logger and a context of its own
Alloc(n) == n

\* the Logger and the context the second logger's pointer refers to
PeerLogger ==
    IF peer.id = 1 THEN [ctx |-> ctx, handler |-> handler]
    ELSE [ctx |-> peer.ctx, handler |-> peer.handler]

\* an assignment to logger.ctx and logger.Logger through the second pointer
StorePeer(c, h) ==
    IF peer.id = 1
    THEN ctx' = c /\ handler' = h /\ peer' = peer
    ELSE peer' = [peer EXCEPT !.ctx = c, !.handler = h] /\ UNCHANGED <<ctx, handler>>

\* the record of one logging call of the second logger in last
PeerResult(lvl, en, events, err) ==
    [op |-> "Log", who |-> 2, method |-> "Log", level |-> lvl,
     kind |-> PeerLogger.handler.kind, min |-> PeerLogger.handler.level,
     outs |-> PeerLogger.handler.outs, free |-> ChanCap - Len(peer.ch),
     enabled |-> en, events |-> events, err |-> err]

\* Debug, Info, Warn, Error on the second logger; its channel is its own
PeerLog(lvl) ==
    /\ ~exited
    /\ \E en \in EnabledChoices(PeerLogger.handler, lvl), m \in Msgs :
         IF ~en
         THEN /\ last' = PeerResult(lvl, FALSE, <<>>, NoErr)
              /\ UNCHANGED <<ctx, handler, ch, exited, sent, rcvd, pkg>>
         ELSE \E env \in Envs(PeerLogger.ctx, PeerLogger.handler) :
                \E res \in {Handle(PeerLogger.ctx, PeerLogger.handler,
                                   Record(lvl, m, <<>>), peer.ch, env)} :
                   /\ peer' = [peer EXCEPT !.ch = res.ch]
                   /\ last' = PeerResult(lvl, TRUE,
                                         HandleEvents(PeerLogger.handler, res), res.err)
                   /\ UNCHANGED <<ctx, handler, ch, exited, sent, rcvd,
                                  LOGLEVEL, global, lvlSet, input, gor, out>>

\* SetLoggerLevel(second, level)
PeerSetLoggerLevel(lvl) ==
    /\ ~exited
    /\ \E hasSetLevel \in HasSetLevelChoices(PeerLogger.handler) :
         LET c == [PeerLogger.ctx EXCEPT !.logLevel = lvl]
         IN StorePeer(c, RebuildHandler(c, PeerLogger.handler, lvl, hasSetLevel))
    /\ last' = [op |-> "SetLoggerLevel", who |-> 2, level |-> lvl]
    /\ UNCHANGED <<ch, exited, sent, rcvd, LOGLEVEL, global, lvlSet, input, gor, out>>

\* second.Close()
PeerClose ==
    /\ ~exited
    /\ \E fc \in SUBSET {PeerLogger.ctx.fileWriters[i] : i \in DOMAIN PeerLogger.ctx.fileWriters},
          fs \in SUBSET {i \in DOMAIN PeerLogger.ctx.outputs :
                            PeerLogger.ctx.outputs[i].kind = "raw"
                            /\ PeerLogger.ctx.outputs[i].id = 0} :
         LET r == CloseFiles(PeerLogger.ctx.fileWriters, fc, NoErr)
         IN last' = [op |-> "Close", who |-> 2, failing |-> fc, syncFailing |-> fs,
                     closed |-> r.closed,
                     err |-> SyncOutputs(PeerLogger.ctx.outputs, 1, fs, r.err)]
    /\ UNCHANGED <<ctx, handler, ch, exited, sent, rcvd, pkg>>

\* the option lists the two loggers are built with
TwoConfigs ==
    {<<>>, <<[op |-> "UseJSON"]>>, <<[op |-> "AddChannelOutput"]>>,
     <<[op |-> "AddFileOutput", ok |-> TRUE]>>,
     <<[op |-> "SetLevel", level |-> LevelDebug], [op |-> "AddChannelOutput"]>>}

\* the levels the two loggers are set to and log at
TwoLevels == {LevelDebug, LevelInfo, LevelError}

InitTwo ==
    /\ LOGLEVEL = LevelInfo
    /\ \E o1 \in TwoConfigs, o2 \in TwoConfigs :
         LET l1 == NewLogger(o1)
             l2 == NewLogger(o2)
         IN /\ ctx = l1.ctx /\ handler = l1.handler
            /\ peer = [id |-> Alloc(2), ctx |-> l2.ctx, handler |-> l2.handler, ch |-> <<>>]
    /\ ch = <<>>
    /\ last = [op |-> "none", who |-> 0]
    /\ exited = FALSE
    /\ sent = <<>>
    /\ rcvd = <<>>
    /\ global = FALSE
    /\ lvlSet = <<>>
    /\ input = <<>>
    /\ gor = <<>>
    /\ out = <<>>

NextTwo ==
    \/ \E lvl \in TwoLevels : Log(lvl)
    \/ \E lvl \in TwoLevels : SetLoggerLevel(lvl)
    \/ Close
    \/ \E lvl \in TwoLevels : PeerLog(lvl)
    \/ \E lvl \in TwoLevels : PeerSetLoggerLevel(lvl)
    \/ PeerClose

SpecTwo == InitTwo /\ [][NextTwo]_vars

----------------------------------------------------------------------------
(* The global logger: Init, L, SetGlobalLevel and the package-level Close *)

\* the options given to Init
GlobalOptions ==
    [op : {"UseJSON", "AddChannelOutput", "DisableConsole"}]
    \cup [op : {"SetLevel"}, level : {LevelWarn}]

\* the levels given to SetGlobalLevel
GlobalLevels == {LevelDebug, LevelInfo, LevelError}

\* Init(opts...): logger = NewLogger(opts...)
GlobalInit(opts) ==
    /\ ~exited
    /\ LET l == NewLogger(opts) IN ctx' = l.ctx /\ handler' = l.handler
    /\ global' = TRUE
    /\ lvlSet' = <<>>
    /\ last' = [op |-> "Init", who |-> 1]
    /\ UNCHANGED <<ch, exited, sent, rcvd, LOGLEVEL, peer, input, gor, out>>

\* SetGlobalLevel(level): LOGLEVEL = level, and nothing else
SetGlobalLevel(lvl) ==
    /\ ~exited
    /\ LOGLEVEL' = lvl
    /\ lvlSet' = <<lvl>>
    /\ last' = [op |-> "SetGlobalLevel", who |-> 1, level |-> lvl]
    /\ UNCHANGED <<ctx, handler, ch, exited, sent, rcvd, global, peer, input, gor, out>>

\* L().Debug, L().Info, L().Warn, L().Error: L returns the package's logger
GlobalLog(lvl) == global /\ Log(lvl)

\* L().Trace
GlobalTrace == global /\ Trace

\* the package-level Close: nil when there is no logger, else logger.Close()
GlobalClose ==
    IF ~global
    THEN /\ ~exited
         /\ last' = [op |-> "Close", who |-> 0, failing |-> {}, syncFailing |-> {},
                     closed |-> <<>>, err |-> NoErr]
         /\ UNCHANGED <<ctx, handler, ch, exited, sent, rcvd, pkg>>
    ELSE Close

InitGlobal ==
    /\ LOGLEVEL = LevelInfo
    /\ global = FALSE
    /\ ctx = <<>>
    /\ handler = <<>>
    /\ ch = <<>>
    /\ last = [op |-> "none", who |-> 0]
    /\ exited = FALSE
    /\ sent = <<>>
    /\ rcvd = <<>>
    /\ peer = <<>>
    /\ lvlSet = <<>>
    /\ input = <<>>
    /\ gor = <<>>
    /\ out = <<>>

NextGlobal ==
    \/ \E opts \in SeqsOver(GlobalOptions, MaxOpts) : GlobalInit(opts)
    \/ \E lvl \in GlobalLevels : SetGlobalLevel(lvl)
    \/ \E lvl \in {LevelDebug, LevelInfo, LevelWarn, LevelError} : GlobalLog(lvl)
    \/ GlobalTrace
    \/ GlobalClose

SpecGlobal == InitGlobal /\ [][NextGlobal]_vars

----------------------------------------------------------------------------
(* The level queries *)

\* the *Logger argument of the queries: nil, or a logger with its context
NilLogger == [nil |-> TRUE]
LoggerArg(c) == [nil |-> FALSE, ctx |-> c]

\* IsLevelEnabled(level, logger)
IsLevelEnabled(level, logger) ==
    IF ~logger.nil THEN level >= logger.ctx.logLevel ELSE level >= LOGLEVEL

\* GetCurrentLevel(logger)
GetCurrentLevel(logger) ==
    IF ~logger.nil THEN logger.ctx.logLevel ELSE LOGLEVEL

\* the options of the logger the queries are about
LevelOptions ==
    [op : {"UseJSON", "DisableConsole"}]
    \cup [op : {"SetLevel"}, level : {LevelDebug, LevelWarn}]

\* SetLoggerLevel(L(), level)
GlobalSetLoggerLevel(lvl) == global /\ SetLoggerLevel(lvl)

\* IsLevelEnabled(level, arg) and GetCurrentLevel(arg), arg being L() or nil
QueryLevel(level, nilArg) ==
    /\ ~exited
    /\ LET arg == IF nilArg \/ ~global THEN NilLogger ELSE LoggerArg(ctx)
       IN last' = [op |-> "IsLevelEnabled", who |-> 1, level |-> level,
                   nilArg |-> arg.nil,
                   enabled |-> IsLevelEnabled(level, arg),
                   current |-> GetCurrentLevel(arg)]
    /\ UNCHANGED <<ctx, handler, ch, exited, sent, rcvd, pkg>>

NextLevel ==
    \/ \E opts \in SeqsOver(LevelOptions, MaxOpts) : GlobalInit(opts)
    \/ \E lvl \in GlobalLevels : SetGlobalLevel(lvl)
    \/ \E lvl \in Levels : GlobalSetLoggerLevel(lvl)
    \/ \E lvl \in Levels, nilArg \in BOOLEAN : QueryLevel(lvl, nilArg)

SpecLevel == InitGlobal /\ [][NextLevel]_vars

----------------------------------------------------------------------------
(* The styled console writer and the level it detects *)

\* the keys of logLevelStyles
LevelNames == {"TRACE", "DEBUG", "INFO", "WARN", "ERROR", "FATAL"}

\* strings.ToUpper on one token
ToUpper(tok) ==
    CASE tok = "level" -> "LEVEL"
      [] tok = "error" -> "ERROR"
      [] tok = "msg"   -> "MSG"
      [] tok = "time"  -> "TIME"
      [] tok = "a"     -> "A"
      [] OTHER         -> tok

\* the tokens that are no word characters: \b lies between one of them (or
\* an end of the text) and a word
NonWord == {"=", " ", "\n", "\t", "[", "]", "\"", ":", ",", "{", "}"}

\* regexp `\bLEVEL=<name>\b` matches the upper-cased text
MatchString(name, s) ==
    \E i \in 1..(Len(s) - 2) :
        /\ ToUpper(s[i]) = "LEVEL"
        /\ s[i + 1] = "="
        /\ ToUpper(s[i + 2]) = name
        /\ (i = 1 \/ s[i - 1] \in NonWord)
        /\ (i + 2 = Len(s) \/ s[i + 3] \in NonWord)

\* detectLevel(s): the values the call can return.  The loop ranges over the
\* map logLevelStyles, whose iteration order is not fixed, and returns the
\* first level of that order whose expression matches.
detectLevel(s) ==
    LET m == {name \in LevelNames : MatchString(name, s)}
    IN IF m = {} THEN {""} ELSE m

\* the messages of the records written to the console
DetectMsgs ==
    {<<"a">>, <<"level", "=", "ERROR">>, <<"level", "=", "error">>,
     <<"a", "level", "=", "WARN">>, <<"a", " ", "level", "=", "INFO">>}

\* the options of the logger with the styled console
DetectOptions == [op : {"DisableColors", "AddConsoleOutput"}]

\* StyledConsoleWriter.Write(p), p the line the text handler made of the
\* record: the level is detected from p and the line is printed in the
\* style logLevelStyles has for it, in the default style when there is none
ConsoleWrite ==
    /\ input.kind = "line"
    /\ \E p \in {TextLine(handler, input.rec)} :
         \E level \in detectLevel(p), env \in Envs(ctx, handler) :
           \E r \in {StyledConsoleWrite(ctx, p, env, 1)} :
             last' = [op |-> "ConsoleWrite", who |-> 1, rec |-> input.rec, p |-> p,
                      detected |-> level,
                      style |-> IF ~ctx.colorEnabled THEN "none"
                                ELSE IF level \in LevelNames THEN level
                                ELSE "default",
                      n |-> r.n, err |-> r.err]
    /\ UNCHANGED <<ctx, handler, ch, exited, sent, rcvd, pkg>>

InitDetect ==
    /\ LOGLEVEL = LevelInfo
    /\ \E opts \in SeqsOver(DetectOptions, MaxOpts) :
         LET l == NewLogger(opts) IN ctx = l.ctx /\ handler = l.handler
    /\ ch = <<>>
    /\ last = [op |-> "none", who |-> 0]
    /\ exited = FALSE
    /\ sent = <<>>
    /\ rcvd = <<>>
    /\ global = FALSE
    /\ peer = <<>>
    /\ lvlSet = <<>>
    /\ input \in [kind : {"line"},
                  rec : {Record(lvl, m, <<>>) : lvl \in Levels, m \in DetectMsgs}]
    /\ gor = <<>>
    /\ out = <<>>

NextDetect == ConsoleWrite

SpecDetect == InitDetect /\ [][NextDetect]_vars

----------------------------------------------------------------------------
(* The handlers on their own: records with attributes, derived handlers,    *)
(* and the argument normalizer                                              *)

\* the attributes put on records and attached with With: two plain keys,
\* one of them with two values, and the reserved key Trace and Fatal use
AttrUniverse ==
    {[key |-> "a", val |-> <<"1">>], [key |-> "a", val |-> <<"2">>],
     [key |-> "b", val |-> <<"1">>], [key |-> "source", val |-> CallerVal],
     [key |-> "level", val |-> <<"ERROR">>]}

\* the messages of the records: a text and the empty message
RenderMsgs == {<<"a">>, <<>>}

\* CustomTextHandler.WithAttrs: a copy with the attributes appended.
\* JSONHandler.WithAttrs: NewJSONHandler(h.out, h.opts, h.prettyPrint), a
\* handler that was given nothing of attrs.
WithAttrs(h, as) ==
    IF h.kind = "text" THEN [h EXCEPT !.attrs = @ \o as]
    ELSE [h EXCEPT !.attrs = <<>>]

\* the keys of a rendering, in output order
Keys(ps) == [i \in DOMAIN ps |-> ps[i].key]

\* the pairs a built-in handler writes for a record, in output order
RenderedPairs(h, r) == IF h.kind = "text" THEN TextPairs(h, r) ELSE JSONPairs(h, r)

\* the bytes a built-in handler hands to its writer for a record
RenderedLine(h, r) == IF h.kind = "text" THEN TextLine(h, r) ELSE JSONLine(h, r)

\* what one Handle call of handler h did, as kept in last
HandleResult(via, h, r) ==
    [op |-> "Handle", who |-> 1, via |-> via, kind |-> h.kind, rec |-> r,
     pairs |-> RenderedPairs(h, r),
     textKeys |-> Keys(TextPairs([h EXCEPT !.kind = "text"], r)),
     line |-> RenderedLine(h, r)]

\* the records handed to the handlers
Records ==
    {Record(lvl, m, as) : lvl \in {LevelInfo, LevelWarn}, m \in RenderMsgs,
                          as \in SeqsOver(AttrUniverse, MaxAttrs)}

\* h.Handle(ctx, r) on the handler NewLogger made
HandleRecord ==
    /\ input.kind = "record"
    /\ last' = HandleResult("original", handler, input.rec)
    /\ UNCHANGED <<ctx, handler, ch, exited, sent, rcvd, pkg>>

\* logger.With(key, value): a second logger over handler.WithAttrs(attrs)
With ==
    /\ input.kind = "record"
    /\ peer = <<>>
    /\ peer' = [id |-> 2, ctx |-> ctx, handler |-> WithAttrs(handler, <<input.with>>),
                ch |-> <<>>]
    /\ last' = [op |-> "With", who |-> 1, attrs |-> <<input.with>>]
    /\ UNCHANGED <<ctx, handler, ch, exited, sent, rcvd, LOGLEVEL, global, lvlSet, input, gor, out>>

\* Handle on the derived handler
HandleDerived ==
    /\ input.kind = "record"
    /\ peer # <<>>
    /\ last' = HandleResult("derived", peer.handler, input.rec)
    /\ UNCHANGED <<ctx, handler, ch, exited, sent, rcvd, pkg>>

\* an argument of a logging call: a pre-built slog.Attr, a string, or a
\* value of another type.  s is the value as slog.Any would hold it.
ArgUniverse ==
    {[t |-> "attr", s |-> "a=1", key |-> "a", val |-> "1"],
     [t |-> "string", s |-> "a", key |-> "", val |-> ""],
     [t |-> "string", s |-> "b", key |-> "", val |-> ""],
     [t |-> "other", s |-> "7", key |-> "", val |-> ""]}

\* the sentinel value of a key without a value
MISSING == "(MISSING)"

RECURSIVE NormalizeFrom_KeepsValue(_, _)
\* a normalizer that skips a bad key alone, and reads its value as a key
NormalizeFrom_KeepsValue(args, i) ==
    IF i > Len(args) THEN <<>>
    ELSE LET v == args[i]
         IN CASE v.t = "attr" ->
                   <<[key |-> v.key, val |-> v.val]>> \o NormalizeFrom_KeepsValue(args, i + 1)
              [] v.t = "string" ->
                   IF i + 1 <= Len(args)
                   THEN <<[key |-> v.s, val |-> args[i + 1].s]>>
                        \o NormalizeFrom_KeepsValue(args, i + 2)
                   ELSE <<[key |-> v.s, val |-> MISSING]>>
              [] OTHER -> NormalizeFrom_KeepsValue(args, i + 1)

normalizeAttrs_KeepsValue(args) == NormalizeFrom_KeepsValue(args, 1)

RECURSIVE NormalizeFrom(_, _)
\* the loop of normalizeAttrs, from index i (1-based) on
NormalizeFrom(args, i) ==
    IF i > Len(args) THEN <<>>
    ELSE LET v == args[i]
         IN CASE v.t = "attr" ->
                   <<[key |-> v.key, val |-> v.val]>> \o NormalizeFrom(args, i + 1)
              [] v.t = "string" ->
                   IF i + 1 <= Len(args)
                   THEN <<[key |-> v.s, val |-> args[i + 1].s]>> \o NormalizeFrom(args, i + 2)
                   ELSE <<[key |-> v.s, val |-> MISSING]>> \o NormalizeFrom(args, i + 1)
              [] OTHER ->
                   IF i + 1 <= Len(args)
                   THEN NormalizeFrom(args, i + 2)
                   ELSE NormalizeFrom(args, i + 1)

\* normalizeAttrs(args...)
normalizeAttrs(args) == NormalizeFrom(args, 1)

\* a call of normalizeAttrs, as Trace and Fatal make it
Normalize ==
    /\ input.kind = "args"
    /\ last' = [op |-> "normalizeAttrs", who |-> 1, args |-> input.args,
                out |-> normalizeAttrs(input.args)]
    /\ UNCHANGED <<ctx, handler, ch, exited, sent, rcvd, pkg>>

\* what a run is about: a record and an attribute to attach with With, or
\* an argument list
RenderInputs ==
    [kind : {"record"}, rec : Records, with : AttrUniverse]
    \cup [kind : {"args"}, args : SeqsOver(ArgUniverse, MaxArgs)]

\* the handlers as NewCustomTextHandler and NewJSONHandler make them over a
\* buffer, with and without AddSource
InitRender ==
    /\ LOGLEVEL = LevelInfo
    /\ \E k \in {"text", "json"}, src \in BOOLEAN :
         /\ ctx = [DefaultCtx EXCEPT !.outputs = <<Writer("raw", 1)>>,
                                     !.useJSONFormat = (k = "json"),
                                     !.includeSource = src, !.consoleOn = FALSE]
         /\ handler = Handler(k, ctx, LOGLEVEL)
    /\ ch = <<>>
    /\ last = [op |-> "none", who |-> 0]
    /\ exited = FALSE
    /\ sent = <<>>
    /\ rcvd = <<>>
    /\ global = FALSE
    /\ peer = <<>>
    /\ lvlSet = <<>>
    /\ input \in RenderInputs
    /\ gor = <<>>
    /\ out = <<>>

NextRender == HandleRecord \/ With \/ HandleDerived \/ Normalize

SpecRender == InitRender /\ [][NextRender]_vars

----------------------------------------------------------------------------
(* Loggers built with a caller's handler *)

\* the options given next to UseCustomHandler
CustomOptions ==
    [op : {"UseJSON", "AddConsoleOutput", "AddChannelOutput"}]
    \cup [op : {"AddFileOutput"}, ok : {TRUE}]
    \cup [op : {"SetLevel"}, level : {LevelDebug}]

InitCustom ==
    /\ LOGLEVEL = LevelInfo
    /\ \E opts \in SeqsOver(CustomOptions, MaxOpts) :
         LET l == NewLogger(<<[op |-> "UseCustomHandler"]>> \o opts)
         IN ctx = l.ctx /\ handler = l.handler
    /\ ch = <<>>
    /\ last = [op |-> "none", who |-> 0]
    /\ exited = FALSE
    /\ sent = <<>>
    /\ rcvd = <<>>
    /\ global = FALSE
    /\ peer = <<>>
    /\ lvlSet = <<>>
    /\ input = <<>>
    /\ gor = <<>>
    /\ out = <<>>

SpecCustom == InitCustom /\ [][Next]_vars

----------------------------------------------------------------------------
(* Concurrent calls on one logger: two goroutines that log and one that     *)
(* sets the level.  A step is one access to the logger's fields or one      *)
(* Write call of a destination.                                             *)

\* the goroutines that log, and the one that calls SetLoggerLevel
Loggers == {"g1", "g2"}
Setter == "s"

\* the option lists of the loggers of the concurrent runs
ConcConfigs ==
    {<<>>, <<[op |-> "UseJSON"]>>, <<[op |-> "AddChannelOutput"]>>,
     <<[op |-> "AddFileOutput", ok |-> TRUE], [op |-> "AddChannelOutput"]>>,
     <<[op |-> "AddFileOutput", ok |-> TRUE], [op |-> "AddConsoleOutput"]>>,
     <<[op |-> "DisableColors"], [op |-> "AddFileOutput", ok |-> TRUE],
       [op |-> "UseJSON"]>>}

\* the record a goroutine logs: Info, with a message of its own
RecordOf(g) == Record(LevelInfo, IF g = "g1" THEN <<"a">> ELSE <<"b">>, <<>>)

\* a Handle that writes the text of the line and the newline separately
HandleChunks_TwoWrites(h, r) ==
    LET line == RenderedLine(h, r)
    IN <<SubSeq(line, 1, Len(line) - 1), <<"\n">>>>

\* the Write calls Handle makes on h.out: the whole line, built first in a
\* strings.Builder (text) or by json.Marshal and append (JSON), in one call
HandleChunks(h, r) == <<RenderedLine(h, r)>>

\* the bytes a destination gets from Write(p): the styled line printed by one
\* Fprintln, the trimmed message sent on the channel, or p itself
DeliveredBytes(c, w, p) ==
    CASE w.kind = "styled" -> StyledLine(c, p, FALSE)
      [] w.kind = "chan"   -> TrimSpace(p)
      [] OTHER             -> p

\* a run in which no underlying write fails
NoFail == [fail |-> {}, ansi |-> FALSE]

\* the locks a goroutine holds while it reads or writes the logger's fields:
\* neither the logging methods nor SetLoggerLevel take mu or any other lock
LocksHeld(g) == {}

\* l.Logger is read: the receiver of the promoted slog.Logger method
LoadHandler(g) ==
    /\ gor[g].pc = "start"
    /\ gor' = [gor EXCEPT ![g] = [@ EXCEPT !.pc = "loaded", !.h = handler]]
    /\ UNCHANGED <<ctx, handler, ch, last, exited, sent, rcvd,
                   LOGLEVEL, global, peer, lvlSet, input, out>>

\* the gate of the handler that was read, then the rendering of the record
GateAndRender(g) ==
    /\ gor[g].pc = "loaded"
    /\ LET h == gor[g].h
       IN IF h.kind \in {"text", "json"} /\ HandlerEnabled(h, RecordOf(g).level)
          THEN gor' = [gor EXCEPT ![g] = [@ EXCEPT !.pc = "write", !.i = 1, !.k = 1,
                                                  !.chunks = HandleChunks(h, RecordOf(g))]]
          ELSE gor' = [gor EXCEPT ![g] = [@ EXCEPT !.pc = "done"]]
    /\ UNCHANGED <<ctx, handler, ch, last, exited, sent, rcvd,
                   LOGLEVEL, global, peer, lvlSet, input, out>>

\* one w.Write(p) of the fan-out: the i-th destination gets the chunk in
\* hand; an error or a short count ends Handle, the last destination ends
\* the Write of this chunk
WriteChunk(g) ==
    /\ gor[g].pc = "write"
    /\ LET h == gor[g].h
           i == gor[g].i
           p == Head(gor[g].chunks)
       IN \E r \in {WriterWrite(ctx, h.outs[i], i, p, ch, NoFail)} :
            /\ ch' = r.ch
            /\ out' = IF r.delivered
                      THEN [out EXCEPT ![i] =
                              @ \o [j \in DOMAIN DeliveredBytes(ctx, h.outs[i], p) |->
                                      [g |-> g, k |-> gor[g].k,
                                       tok |-> DeliveredBytes(ctx, h.outs[i], p)[j]]]]
                      ELSE out
            /\ gor' = [gor EXCEPT ![g] =
                         IF r.err # NoErr \/ r.n # ByteLen(p)
                         THEN [@ EXCEPT !.pc = "done", !.err = TRUE]
                         ELSE IF i < Len(h.outs)
                         THEN [@ EXCEPT !.i = i + 1]
                         ELSE IF Tail(@.chunks) = <<>>
                         THEN [@ EXCEPT !.pc = "done"]
                         ELSE [@ EXCEPT !.i = 1, !.k = @ + 1, !.chunks = Tail(@)]]
    /\ UNCHANGED <<ctx, handler, last, exited, sent, rcvd,
                   LOGLEVEL, global, peer, lvlSet, input>>

\* SetLoggerLevel, first write: logger.ctx.logLevel = level
StoreLevel(lvl) ==
    /\ gor[Setter].pc = "start"
    /\ ctx' = [ctx EXCEPT !.logLevel = lvl]
    /\ gor' = [gor EXCEPT ![Setter] = [@ EXCEPT !.pc = "stored"]]
    /\ UNCHANGED <<handler, ch, last, exited, sent, rcvd,
                   LOGLEVEL, global, peer, lvlSet, input, out>>

\* SetLoggerLevel, second write: logger.Logger = slog.New(newHandler)
StoreHandler ==
    /\ gor[Setter].pc = "stored"
    /\ handler' = RebuildHandler(ctx, handler, ctx.logLevel, FALSE)
    /\ lvlSet' = <<ctx.logLevel>>
    /\ gor' = [gor EXCEPT ![Setter] = [@ EXCEPT !.pc = "done"]]
    /\ UNCHANGED <<ctx, ch, last, exited, sent, rcvd,
                   LOGLEVEL, global, peer, input, out>>

\* the access to a field of the logger a goroutine is about to make:
\* a logging call reads l.Logger, SetLoggerLevel writes logger.ctx.logLevel
\* and then logger.Logger
Pending(g) ==
    IF g \in Loggers
    THEN IF gor[g].pc = "start" THEN {[loc |-> "Logger", write |-> FALSE]} ELSE {}
    ELSE CASE gor[g].pc = "start"  -> {[loc |-> "logLevel", write |-> TRUE]}
           [] gor[g].pc = "stored" -> {[loc |-> "Logger", write |-> TRUE]}
           [] OTHER                -> {}

InitConc ==
    /\ LOGLEVEL = LevelInfo
    /\ \E opts \in ConcConfigs :
         LET l == NewLogger(opts) IN ctx = l.ctx /\ handler = l.handler
    /\ ch = <<>>
    /\ last = [op |-> "none", who |-> 0]
    /\ exited = FALSE
    /\ sent = <<>>
    /\ rcvd = <<>>
    /\ global = FALSE
    /\ peer = <<>>
    /\ lvlSet = <<>>
    /\ input = <<>>
    /\ gor = [g \in Loggers \cup {Setter} |->
                [pc |-> "start", h |-> <<>>, chunks |-> <<>>, i |-> 0, k |-> 0,
                 err |-> FALSE]]
    /\ out = [i \in DOMAIN ctx.outputs |-> <<>>]

NextConc ==
    \/ \E g \in Loggers : LoadHandler(g)
    \/ \E g \in Loggers : GateAndRender(g)
    \/ \E g \in Loggers : WriteChunk(g)
    \/ \E lvl \in {LevelDebug, LevelError} : StoreLevel(lvl)
    \/ StoreHandler

SpecConc == InitConc /\ [][NextConc]_vars

----------------------------------------------------------------------------
(* Properties *)

\* the Write calls among the events of a logging call
WriteEvents(ev) == SelectSeq(ev, LAMBDA x : x.e = "write")
\* the calls of the exit function among them
ExitEvents(ev) == SelectSeq(ev, LAMBDA x : x.e = "exit")

IsLog == last.op = "Log"
IsBuiltin == last.kind \in {"text", "json"}

\* C1: on a logger with a built-in handler and minimum level M, a logging
\* call at level L (Trace, Debug, Info, Warn, Error, Fatal) writes a rendering
\* to the destinations if and only if L >= M.
C1_LevelGate ==
    (IsLog /\ IsBuiltin) =>
        ((WriteEvents(last.events) # <<>>) <=> (last.level >= ctx.logLevel))

\* a Trace record was written: the gate had been lowered to Trace
C1_TraceWritten ==
    /\ IsLog /\ IsBuiltin
    /\ last.level = LevelTrace
    /\ ctx.logLevel = LevelTrace
    /\ WriteEvents(last.events) # <<>>

\* C2: when no destination's write fails and the channel has room, one enabled
\* logging call delivers the rendering exactly once to every destination of
\* the list, whatever the kinds and the order of the destinations.
C2_EveryDestinationOnce ==
    (/\ IsLog /\ IsBuiltin /\ last.enabled
     /\ \A i \in DOMAIN last.events :
            last.events[i].e = "write" => last.events[i].err.kind # "write"
     /\ Cardinality({i \in DOMAIN last.outs : last.outs[i].kind = "chan"}) <= last.free)
    => \A d \in DOMAIN last.outs :
          Len(SelectSeq(last.events,
                        LAMBDA x : x.e = "write" /\ x.dst = d /\ x.delivered)) = 1

\* C3: the fan-out writes the destinations in configuration order; a
\* destination that returns an error is the last one written in that call,
\* those before it have been written, and its error is the one returned.
C3_FailFast ==
    (IsLog /\ IsBuiltin /\ last.enabled) =>
        LET ws == WriteEvents(last.events)
        IN /\ Len(ws) <= Len(last.outs)
           /\ \A k \in DOMAIN ws : ws[k].dst = k
           /\ \A k \in DOMAIN ws :
                  ws[k].err.kind = "write" => (k = Len(ws) /\ last.err = ws[k].err)

\* the first of two destinations failed and the second was not written
C3_SecondSkipped ==
    /\ IsLog /\ IsBuiltin /\ last.enabled
    /\ Len(last.outs) = 2
    /\ LET ws == WriteEvents(last.events)
       IN Len(ws) = 1 /\ ws[1].err.kind = "write"

\* C4: every call of Fatal calls the exit function with status 1 exactly
\* once: when the level is suppressed, when it is enabled, when the write
\* fails.
C4_FatalExitsOnce ==
    (IsLog /\ last.method = "Fatal") =>
        /\ ExitEvents(last.events) = <<ExitEvent>>
        /\ exited

\* Fatal was suppressed by the gate and still exited
C4_SuppressedFatalExited ==
    /\ IsLog /\ last.method = "Fatal" /\ ~last.enabled
    /\ exited

\* C5: an enabled Fatal hands the record to the handler, and every Write of
\* the rendering is over, before the exit function is called.
C5_WriteBeforeExit ==
    (IsLog /\ last.method = "Fatal" /\ last.enabled) =>
        LET ev == last.events
        IN /\ Len(ev) >= 2
           /\ ev[1].e = "handle"
           /\ ev[Len(ev)].e = "exit"
           /\ \A i \in 1..(Len(ev) - 1) : ev[i].e # "exit"
           /\ IsBuiltin => ev[2].e = "write"

\* an enabled Fatal of a built-in handler whose write failed, then exited
C5_FatalWritten ==
    /\ IsLog /\ last.method = "Fatal" /\ last.enabled /\ IsBuiltin
    /\ last.err # NoErr
    /\ exited

IsWrite == last.op = "Write"

\* C6: a Write of a non-empty line to a full channel returns (it does not
\* wait for room), returns no error, delivers nothing and leaves the channel
\* as it was.
C6_FullChannelDrops ==
    (IsWrite /\ TrimSpace(last.p) # <<>> /\ Len(last.before) = ChanCap) =>
        /\ last.err = NoErr
        /\ ch = last.before

\* a non-empty line was written to a full channel
C6_WroteToFull ==
    /\ IsWrite /\ TrimSpace(last.p) # <<>>
    /\ Len(last.before) = ChanCap /\ ChanCap > 0

\* the trimmed inputs of the writes that found room, in write order
Fitted == LET f == SelectSeq(sent, LAMBDA x : x.fits)
          IN [i \in DOMAIN f |-> TrimSpace(f[i].p)]

IsClose == last.op = "Close"

\* C9: Logger.Close calls close on every file destination of the logger, in
\* order, also after the close of an earlier one failed.
C9_AllFilesClosed ==
    IsClose => last.closed = ctx.fileWriters

\* the first of two file destinations failed to close
C9_FirstCloseFailed ==
    /\ IsClose
    /\ Len(ctx.fileWriters) = 2
    /\ ctx.fileWriters[1] \in last.failing

\* the first file destination, in configuration order, whose close failed
FirstFailing ==
    LET i == CHOOSE i \in DOMAIN ctx.fileWriters :
                 /\ ctx.fileWriters[i] \in last.failing
                 /\ \A j \in 1..(i - 1) : ctx.fileWriters[j] \notin last.failing
    IN ctx.fileWriters[i]

\* C10: when file destinations fail to close, Logger.Close returns the error
\* of the first failing one in configuration order.
C10_FirstErrorWins ==
    (IsClose /\ last.failing # {}) => last.err = Err("close", FirstFailing)

\* C11: Close on a logger that has no file destination returns no error,
\* whatever its other destinations are (styled console, standard output used
\* raw for JSON, channel, a caller's writer).
C11_NoFilesNoError ==
    (IsClose /\ last.who = 1 /\ ctx.fileWriters = <<>>) => last.err = NoErr

\* C12: after SetLoggerLevel(logger, v) on a logger with a built-in handler,
\* a later logging call at level L on that logger writes to the destinations
\* if and only if L >= v, whatever the level was before.
C12_SetLevelGate ==
    (IsLog /\ last.who = 1 /\ IsBuiltin /\ lvlSet # <<>>) =>
        ((WriteEvents(last.events) # <<>>) <=> (last.level >= lvlSet[1]))

\* the gate was raised to Fatal and an Error call was held back
C12_RaisedThenHeld ==
    /\ IsLog /\ last.who = 1 /\ IsBuiltin
    /\ lvlSet = <<LevelFatal>>
    /\ last.level = LevelError
    /\ WriteEvents(last.events) = <<>>

\* C13: a logging call, a SetLoggerLevel or a Close on one of two loggers
\* built by separate NewLogger calls leaves the other logger's context
\* (minimum level, destination list), handler and emitted output as they were.
C13_Independent ==
    [][/\ last'.who = 1 => peer' = peer
       /\ last'.who = 2 => (ctx' = ctx /\ handler' = handler /\ ch' = ch)]_vars

\* both loggers have had their level set, to different levels, and the
\* second has written to its channel
C13_BothSet ==
    /\ peer # <<>>
    /\ lvlSet # <<>>
    /\ ctx.logLevel = LevelError
    /\ peer.ctx.logLevel = LevelDebug
    /\ peer.ch # <<>>
    /\ last.who = 1

\* C14: after SetGlobalLevel(v), a logging call at level L through the
\* global logger returned by L() writes to the destinations if and only if
\* L >= v.
C14_GlobalLevelGate ==
    (IsLog /\ IsBuiltin /\ global /\ lvlSet # <<>>) =>
        ((WriteEvents(last.events) # <<>>) <=> (last.level >= LOGLEVEL))

\* C15: a logger built without the disable-console option (and with a
\* built-in handler) has a console destination in its destination list,
\* also when file or channel destinations were added.
C15_ConsolePresent ==
    (ctx.consoleOn /\ ~ctx.customHandler) => HasConsoleWriter(ctx.outputs)

IsHandle == last.op = "Handle"

\* the position of a reserved key in attrOrder
OrderPos(k) == CHOOSE i \in DOMAIN attrOrder : attrOrder[i] = k

\* reserved keys first, in the order of attrOrder, then the other keys in
\* ascending order
ReservedFirstThenSorted(ks) ==
    \A i, j \in DOMAIN ks :
        i < j =>
            /\ InOrder(ks[j]) => InOrder(ks[i])
            /\ (InOrder(ks[i]) /\ InOrder(ks[j])) => OrderPos(ks[i]) < OrderPos(ks[j])
            /\ (~InOrder(ks[i]) /\ ~InOrder(ks[j])) => Rank(ks[i]) < Rank(ks[j])

\* C16: for every record and every order of its attributes the Text Handler
\* writes the reserved keys time, level, msg, source first, in that order,
\* and after them the remaining keys in ascending order; no reserved key
\* comes after a non-reserved one.
C16_TextKeyOrder ==
    (IsHandle /\ last.kind = "text") => ReservedFirstThenSorted(Keys(last.pairs))

\* C17: the JSON Handler writes the keys of a record's object with the
\* reserved keys first in the fixed order and the remaining keys ascending
\* after them, the key order the Text Handler has for the same record.
C17_JSONKeyOrder ==
    (IsHandle /\ last.kind = "json") =>
        /\ ReservedFirstThenSorted(Keys(last.pairs))
        /\ Keys(last.pairs) = last.textKeys

RECURSIVE IsKeyPos(_, _)
\* position p of an argument list is a key position: the first one, the one
\* after a pre-built attribute at a key position, or the second one after a
\* string or another value at a key position
IsKeyPos(args, p) ==
    \/ p = 1
    \/ p > 1 /\ args[p - 1].t = "attr" /\ IsKeyPos(args, p - 1)
    \/ p > 2 /\ args[p - 2].t # "attr" /\ IsKeyPos(args, p - 2)

\* what the element at a key position contributes
Contribution(args, p) ==
    IF args[p].t = "attr" THEN [key |-> args[p].key, val |-> args[p].val]
    ELSE [key |-> args[p].s, val |-> IF p < Len(args) THEN args[p + 1].s ELSE MISSING]

\* the attributes the claim describes for an argument list
ExpectedAttrs(args) ==
    LET P == {p \in DOMAIN args : IsKeyPos(args, p) /\ args[p].t # "other"}
        Nth(k) == CHOOSE p \in P : Cardinality({q \in P : q < p}) = k - 1
    IN [k \in 1..Cardinality(P) |-> Contribution(args, Nth(k))]

\* C18: normalizeAttrs returns, in input order, each pre-built attribute
\* unchanged, for each string at a key position one attribute pairing it with
\* the following element or with "(MISSING)" when none follows, and nothing
\* for another element at a key position, whose following element is skipped
\* too; it returns a result for every argument list.
C18_Normalized ==
    (last.op = "normalizeAttrs") => last.out = ExpectedAttrs(last.args)

\* a non-string key, its would-be value skipped, then a key without a value
C18_SkippedThenMissing ==
    /\ last.op = "normalizeAttrs"
    /\ Len(last.args) = 3
    /\ last.args[1].t = "other" /\ last.args[2].t = "string" /\ last.args[3].t = "string"
    /\ last.out = <<[key |-> last.args[3].s, val |-> MISSING]>>

\* key k is among the pairs of a rendering
HasKey(ps, k) == \E i \in DOMAIN ps : ps[i].key = k

\* C19: an attribute (with a non-reserved key) attached through WithAttrs is
\* rendered on every record the derived handler handles, for the Text and
\* the JSON handler, and a record handled by the original handler carries
\* the key only if the record itself has it.
C19_DerivedCarriesAttrs ==
    (IsHandle /\ ~InOrder(input.with.key)) =>
        /\ last.via = "derived" => HasKey(last.pairs, input.with.key)
        /\ last.via = "original" =>
               (HasKey(last.pairs, input.with.key) =>
                    \E i \in DOMAIN last.rec.attrs : last.rec.attrs[i].key = input.with.key)

\* C20: a logger built with a custom handler hands every record to that
\* handler and to nothing else: after any logging and SetLoggerLevel calls
\* its handler is still the caller's, no built-in handler renders a record
\* and no configured destination is written.
C20_CustomOnly ==
    ctx.customHandler =>
        /\ handler.kind = "custom"
        /\ IsLog => (last.kind = "custom" /\ WriteEvents(last.events) = <<>>)

\* the positions of a destination's stream that hold bytes of goroutine g
BytesOf(st, g) == {j \in DOMAIN st : st[j].g = g}

\* C21: a Handle call of a built-in handler writes its rendering to the
\* fan-out in one Write, each destination receives it as one write, and so
\* at every destination the bytes of one record are never split by bytes of
\* another record, however the concurrent calls interleave.
C21_LinesWhole ==
    gor # <<>> =>
        \A i \in DOMAIN out : \A g \in Loggers :
            /\ \A j \in BytesOf(out[i], g) : out[i][j].k = 1
            /\ \A a, b \in BytesOf(out[i], g) :
                   \A j \in a..b : j \in BytesOf(out[i], g)

\* the calls overlapped: g2 wrote to the first destination after g1 did and
\* before g1 reached the second
C21_Overlapped ==
    /\ gor # <<>>
    /\ Len(out) = 2
    /\ gor["g1"].pc = "write" /\ gor["g1"].i = 2
    /\ BytesOf(out[1], "g1") # {}
    /\ BytesOf(out[1], "g2") # {}
    /\ out[1][1].g = "g1"
    /\ out[2] = <<>>

\* C22: a logging call that runs concurrently with SetLoggerLevel on the
\* same logger never races with it: whenever one goroutine is about to read
\* the logger's handler and another to write it, a common lock orders them.
C22_NoRace ==
    gor # <<>> =>
        \A g1, g2 \in DOMAIN gor :
            \A a1 \in Pending(g1), a2 \in Pending(g2) :
                (g1 # g2 /\ a1.loc = a2.loc /\ (a1.write \/ a2.write))
                    => LocksHeld(g1) \cap LocksHeld(g2) # {}

\* C23: when the write to the fan-out fails, Handle of a built-in handler
\* returns that error after one attempt: no destination is written a second
\* time for the record, the failing write is the last one, and the error
\* returned is the error of that write.
C23_NoRetry ==
    (IsLog /\ IsBuiltin /\ last.enabled /\ last.err # NoErr) =>
        LET ws == WriteEvents(last.events)
        IN /\ Len(SelectSeq(last.events, LAMBDA x : x.e = "handle")) = 1
           /\ ws # <<>>
           /\ \A j, k \in DOMAIN ws : j # k => ws[j].dst # ws[k].dst
           /\ \A k \in 1..(Len(ws) - 1) : ws[k].err = NoErr
           /\ last.err = IF ws[Len(ws)].err # NoErr
                         THEN ws[Len(ws)].err ELSE ErrShortWrite

\* the second of two destinations failed after the first had been written:
\* the call ended there with the error of the second
C23_SecondFailed ==
    /\ IsLog /\ IsBuiltin /\ last.enabled
    /\ Len(last.outs) = 2
    /\ LET ws == WriteEvents(last.events)
       IN /\ Len(ws) = 2
          /\ ws[1].err = NoErr /\ ws[1].delivered
          /\ ws[2].err.kind = "write" /\ last.err = ws[2].err

\* C24: a Write of a non-empty input made of whitespace only delivers
\* nothing to the channel, returns no error and reports the full length of
\* the input.
C24_WhitespaceCounted ==
    (IsWrite /\ last.p # <<>> /\ TrimSpace(last.p) = <<>>) =>
        /\ ch = last.before
        /\ last.err = NoErr
        /\ last.n = ByteLen(last.p)

\* the positions of key k in a rendering
KeyPositions(ps, k) == {i \in DOMAIN ps : ps[i].key = k}

\* C25: an attribute supplied by the caller, on the record or through
\* WithAttrs, whose key is time, level, msg or source is ignored: each
\* reserved key is written at most once and its value is the one of the
\* record's own field (source: the frame of the record, only with AddSource).
C25_ReservedFromRecord ==
    IsHandle =>
        /\ \A i \in DOMAIN attrOrder :
               Cardinality(KeyPositions(last.pairs, attrOrder[i])) <= 1
        /\ \A i \in DOMAIN last.pairs :
               LET p == last.pairs[i]
               IN /\ p.key = "time"   => p.val = TimeVal
                  /\ p.key = "level"  => p.val = levelToString(last.rec.level)
                  /\ p.key = "msg"    => p.val = last.rec.msg
                  /\ p.key = "source" => (handler.addSource /\ p.val = FrameVal)

\* a derived text handler that was given level=ERROR wrote a record that
\* carried source=... itself, on a logger without AddSource
C25_ReservedSupplied ==
    /\ IsHandle /\ last.kind = "text" /\ last.via = "derived"
    /\ ~handler.addSource
    /\ \E i \in DOMAIN peer.handler.attrs : peer.handler.attrs[i].key = "level"
    /\ \E i \in DOMAIN last.rec.attrs : last.rec.attrs[i].key = "source"
    /\ KeyPositions(last.pairs, "source") = {}

\* the attributes the caller supplied for the record written last: the one
\* given to With when the derived handler wrote it, then the record's own
Supplied ==
    (IF last.via = "derived" THEN <<input.with>> ELSE <<>>) \o last.rec.attrs

\* the value of the last occurrence of key k in a list of attributes
LastOf(as, k) == as[CHOOSE i \in KeyPositions(as, k) :
                       \A j \in KeyPositions(as, k) : j <= i].val

\* C26: a non-reserved key supplied several times, on the record or on the
\* derived handler and the record, is written exactly once, with the value
\* of its last occurrence; the record's attributes count as later than the
\* handler's.
C26_LastWins ==
    IsHandle =>
        \A i \in DOMAIN Supplied :
            LET k == Supplied[i].key
            IN (~InOrder(k) /\ Cardinality(KeyPositions(Supplied, k)) >= 2) =>
                  /\ Cardinality(KeyPositions(last.pairs, k)) = 1
                  /\ \A j \in KeyPositions(last.pairs, k) :
                         last.pairs[j].val = LastOf(Supplied, k)

\* a text handler derived with a=2 wrote a record that carried a=1: the
\* line has a=1
C26_RecordOverHandler ==
    /\ IsHandle /\ last.kind = "text" /\ last.via = "derived"
    /\ input.with = [key |-> "a", val |-> <<"2">>]
    /\ last.rec.attrs = <<[key |-> "a", val |-> <<"1">>]>>
    /\ \E j \in DOMAIN last.pairs :
           last.pairs[j] = [key |-> "a", val |-> <<"1">>]

\* C27: the Write of every destination reports the length of its input when
\* it takes it without error, so the fan-out never answers with a short
\* write: a logging call all of whose destination writes succeed returns no
\* error.
C27_NoShortWrite ==
    (/\ IsLog /\ IsBuiltin /\ last.enabled
     /\ \A i \in DOMAIN last.events :
            last.events[i].e = "write" => last.events[i].err = NoErr)
    => last.err = NoErr

\* C28: the level queries agree with the gate that decides the writes:
\* IsLevelEnabled(L, logger) is the answer of the logger's handler for L and
\* GetCurrentLevel(logger) is the handler's minimum level, after any
\* sequence of SetLoggerLevel calls; with a nil logger they report the gate
\* of the global logger installed by Init.
C28_QueriesMatchGate ==
    (last.op = "IsLevelEnabled" /\ global /\ handler.kind # "custom") =>
        /\ last.enabled = HandlerEnabled(handler, last.level)
        /\ last.current = handler.level

\* C29: whatever the order of the console options (AddConsoleOutput,
\* SetConsoleOutput) and UseJSON, the console destination of the logger
\* matches its format: a styled writer if and only if the format is text,
\* the raw writer if and only if it is JSON.
C29_ConsoleMatchesFormat ==
    (handler.kind \in {"text", "json"}) =>
        \A i \in DOMAIN handler.outs :
            /\ handler.outs[i].kind = "styled" => handler.kind = "text"
            /\ handler.outs[i].kind = "raw" => handler.kind = "json"

\* C30: the level the styled console writer detects for a line is the level
\* of the record the line was made of, also when the message contains
\* level=<NAME> of another level: detectLevel has one answer for a line.
C30_DetectsRecordLevel ==
    last.op = "ConsoleWrite" =>
        last.detected = levelToString(last.rec.level)[1]

====
